---- MODULE Spec2Model ----
(***************************************************************************)
(* Model of the AI insight subsystem of the candidate recommendation       *)
(* engine: the session configuration store (AIConfigurationManager), the   *)
(* configure-and-verify protocol (AIInsightEngine.configure_ai) and the    *)
(* batch summary generator (AISummaryGenerator), src/services/ai_manager.py*)
(* with the provider registry of src/services/ai_providers.py.             *)
(* Spec runs the calls one after the other, SpecConc runs them from        *)
(* threads of their own, SpecInsights runs generate_candidate_insights     *)
(* beside a configuring thread, and SpecPure applies the stateless functions*)
(* (cost estimates, registry validation, the adapters' generate_summary,   *)
(* the ranking of embedding_engine.py and the recommend endpoint of        *)
(* main.py) to arguments drawn in its initial state.                       *)
(*                                                                         *)
(* Python values: a str is a TLA+ string, except an API key, which is a    *)
(* sequence of characters so that strip() and len() are computed.  The     *)
(* result of dict.get on the stores and the AI fields of a candidate are   *)
(* <<>> for None and <<x>> (or a tuple) for a value; a str field of a      *)
(* config dict that is missing or None is the empty string.                *)
(***************************************************************************)
EXTENDS Integers, Sequences, FiniteSets, TLC

VARIABLES
    session_configs,   \* AIConfigurationManager.session_configs: session -> Option(config)
    active_providers,  \* AIConfigurationManager.active_providers: session -> Option(adapter)
    h,                 \* the request handlers: position and locals of each
    snap,              \* what a reader of the store saw during the running call
    g,                 \* generate_summaries_batch: position and locals of the call
    candidates,        \* the candidate dicts of the call (annotated in place)
    futures,           \* the (future, candidate) pairs of the call, in submit order
    net_calls,         \* candidates for which a provider request was issued
    calc               \* a call of a stateless service function: arguments and result

\* ------------------------------------------------------------------------
\* Bounds of the model
\* ------------------------------------------------------------------------
MaxCandidates == 4      \* longest candidate list of a batch call
MaxSummaries == 4       \* largest max_summaries of a batch call

Handlers == {"h1", "h2"}
Sessions == {"s1", "s2"}

None == <<>>
Some(x) == <<x>>

\* ------------------------------------------------------------------------
\* Provider registry (ai_providers.py, AIProviderFactory)
\* ------------------------------------------------------------------------
ProviderIds == {"openai", "anthropic", "google", "groq", "ollama"}

PROVIDERS ==
    [p \in ProviderIds |->
        CASE p = "openai" -> "OpenAIProvider"
          [] p = "anthropic" -> "AnthropicProvider"
          [] p = "google" -> "GoogleAIProvider"
          [] p = "groq" -> "GroqProvider"
          [] p = "ollama" -> "OllamaProvider"]

MODELS ==
    [p \in ProviderIds |->
        CASE p = "openai" -> {"gpt-4", "gpt-3.5-turbo", "gpt-4-turbo-preview"}
          [] p = "anthropic" -> {"claude-3-sonnet-20240229", "claude-3-haiku-20240307"}
          [] p = "google" -> {"gemini-pro", "gemini-pro-vision"}
          [] p = "groq" -> {"llama3-8b-8192", "mixtral-8x7b-32768", "gemma-7b-it"}
          [] p = "ollama" -> {"llama2", "mistral", "codellama", "vicuna"}]

\* A validation that looks at the provider only.
validate_provider_config_AnyModel(provider_name, model) ==
    /\ provider_name \in DOMAIN PROVIDERS
    /\ provider_name \in DOMAIN MODELS

\* provider_name in cls.PROVIDERS and provider_name in cls.MODELS and model in cls.MODELS[provider_name]
validate_provider_config(provider_name, model) ==
    /\ provider_name \in DOMAIN PROVIDERS
    /\ provider_name \in DOMAIN MODELS
    /\ model \in MODELS[provider_name]

\* self.__class__.__name__.replace('Provider', '').lower()
provider_name_of(cls) ==
    CASE cls = "OpenAIProvider" -> "openai"
      [] cls = "AnthropicProvider" -> "anthropic"
      [] cls = "GoogleAIProvider" -> "googleai"
      [] cls = "GroqProvider" -> "groq"
      [] cls = "OllamaProvider" -> "ollama"

\* The adapter object built by provider_class(api_key=..., model=..., custom_endpoint=...).
\* OllamaProvider stores (api_key or "local").
NewAdapter(cls, api_key, model, custom_endpoint) ==
    [cls |-> cls,
     provider_name |-> provider_name_of(cls),
     model |-> model,
     api_key |-> IF cls = "OllamaProvider" /\ api_key = <<>>
                 THEN <<"l", "o", "c", "a", "l">> ELSE api_key,
     custom_endpoint |-> custom_endpoint]

\* A factory whose class table lacks the row of a provider the model table has.
create_provider_MissingRow(provider_name, api_key, model, custom_endpoint) ==
    IF provider_name \notin DOMAIN PROVIDERS \ {"google"}
    THEN None
    ELSE Some(NewAdapter(PROVIDERS[provider_name], api_key, model, custom_endpoint))

\* create_provider raises ValueError for an unsupported provider: the result
\* is None here (no adapter), Some(adapter) otherwise.
create_provider(provider_name, api_key, model, custom_endpoint) ==
    IF provider_name \notin DOMAIN PROVIDERS
    THEN None
    ELSE Some(NewAdapter(PROVIDERS[provider_name], api_key, model, custom_endpoint))

\* ------------------------------------------------------------------------
\* Python string helpers
\* ------------------------------------------------------------------------
RECURSIVE lstrip(_)
lstrip(s) == IF s # <<>> /\ Head(s) = " " THEN lstrip(Tail(s)) ELSE s

RECURSIVE rstrip(_)
rstrip(s) ==
    IF s # <<>> /\ s[Len(s)] = " " THEN rstrip(SubSeq(s, 1, Len(s) - 1)) ELSE s

strip(s) == rstrip(lstrip(s))

\* Truthiness of a str field of a dict; a missing key and None are both the
\* empty string here, since the code only ever tests them with `not`.
Truthy(x) == x # ""

\* Truthiness of an API key (a sequence of characters).
TruthyKey(k) == k # <<>>

\* ------------------------------------------------------------------------
\* Inputs of the handlers
\* ------------------------------------------------------------------------
InProviders == {"", "bogus", "openai", "google"}
InModels == {"", "gpt-3.5-turbo", "gemini-pro"}
InKeys == {<<>>, <<" ", "s", "k", " ">>, <<"s", "k", "1">>}

\* A config dict as received: provider, model, api_key; custom_endpoint,
\* temperature and max_tokens are not supplied by the caller.  The configure
\* endpoint passes any key; the direct callers of store_config pass a key
\* without surrounding blanks.
InConfigs == [provider : InProviders, model : InModels, api_key : InKeys]
StoreInConfigs == {c \in InConfigs : strip(c.api_key) = c.api_key}

NoConfig == [provider |-> "", model |-> "", api_key |-> <<>>]

\* ------------------------------------------------------------------------
\* AIConfigurationManager
\* ------------------------------------------------------------------------
get_config(session_id) == session_configs[session_id]

\* A lookup that falls back to the adapter of any configured session.
get_provider_Shared(session_id) ==
    IF active_providers[session_id] # None THEN active_providers[session_id]
    ELSE IF \E s \in Sessions : active_providers[s] # None
         THEN active_providers[CHOOSE s \in Sessions : active_providers[s] # None]
    ELSE None

get_provider(session_id) == active_providers[session_id]

\* A store_config that checks the fields and skips the registry.
StoreConfigAccepts_NoRegistry(config) ==
    Truthy(config.provider) /\ Truthy(config.model) /\ TruthyKey(config.api_key)

\* store_config lines 19-27: the checks that make it return False early.
StoreConfigAccepts(config) ==
    /\ Truthy(config.provider) /\ Truthy(config.model) /\ TruthyKey(config.api_key)
    /\ validate_provider_config(config.provider, config.model)

\* store_config lines 30-37: the dict that is stored.
StoredConfig(config) ==
    [provider |-> config.provider,
     model |-> config.model,
     api_key |-> config.api_key,
     custom_endpoint |-> "",
     temperature |-> "0.7",
     max_tokens |-> 200]

\* store_config lines 40-45: the adapter built from the config.
StoredAdapter(config) ==
    create_provider(config.provider, config.api_key, config.model, "")

\* A clear that tests the key and forgets the del.
DelKey_Kept(d, k) == d

\* A clear that empties the whole dict.
DelKey_All(d, k) == [s \in DOMAIN d |-> None]

\* A clear that removes the entry of the first session only.
DelKey_FirstSession(d, k) == IF k = "s1" /\ d[k] # None THEN [d EXCEPT ![k] = None] ELSE d

\* clear_config lines 72-73 and 74-75: `if k in d: del d[k]`.
DelKey(d, k) == IF d[k] # None THEN [d EXCEPT ![k] = None] ELSE d

\* ------------------------------------------------------------------------
\* AIInsightEngine.configure_ai: validation (lines 207-230)
\* ------------------------------------------------------------------------
default_models(provider) ==
    CASE provider = "openai" -> "gpt-3.5-turbo"
      [] provider = "anthropic" -> "claude-3-haiku-20240307"
      [] provider = "google" -> "gemini-pro"
      [] provider = "groq" -> "llama3-8b-8192"
      [] provider = "ollama" -> "llama2"
      [] OTHER -> "gpt-3.5-turbo"

MinKeyLen == 3

\* The config after `config['model'] = model` (lines 217-226).
WithDefaultModel(config) ==
    IF Truthy(config.model) THEN config
    ELSE [config EXCEPT !.model = default_models(config.provider)]

\* A validation without the API key check of lines 213-214.
ConfigureRejection_NoKeyCheck(config) ==
    IF ~Truthy(config.provider) THEN "Please select an AI provider"
    ELSE IF ~validate_provider_config(config.provider, WithDefaultModel(config).model)
         THEN "Invalid model for provider"
    ELSE ""

\* A validation that leaves the registry check to store_config.
ConfigureRejection_NoRegistry(config) ==
    IF ~Truthy(config.provider) THEN "Please select an AI provider"
    ELSE IF ~TruthyKey(config.api_key) \/ Len(strip(config.api_key)) < MinKeyLen
         THEN "Please enter a valid API key"
    ELSE ""

\* The rejection message of lines 211-230, "" when validation passes.
ConfigureRejection(config) ==
    IF ~Truthy(config.provider) THEN "Please select an AI provider"
    ELSE IF ~TruthyKey(config.api_key) \/ Len(strip(config.api_key)) < MinKeyLen
         THEN "Please enter a valid API key"
    ELSE IF ~validate_provider_config(config.provider, WithDefaultModel(config).model)
         THEN "Invalid model for provider"
    ELSE ""

\* Outcomes of the request test_connection issues: an HTTP status, or 0 for
\* an exception raised by the request (connection refused, timeout).
TestOutcomes == {200, 401, 503, 418, 0}

\* A test that takes every response for a working connection.
test_connection_AnyResponse(outcome) ==
    IF outcome # 0 THEN <<TRUE, "Connection successful">>
    ELSE <<FALSE, "Connection failed">>

\* provider.test_connection(): (success, message) for an outcome of its
\* request (OpenAIProvider lines 103-116, the other adapters alike).
test_connection(outcome) ==
    IF outcome = 200 THEN <<TRUE, "Connection successful">>
    ELSE IF outcome = 0 THEN <<FALSE, "Connection failed">>
    ELSE <<FALSE, "API Error">>

\* configure_ai lines 240-262: the message returned after a failed test.
FailureMessage(outcome, message, provider) ==
    IF message = "No provider configured" THEN "Configuration test failed"
    ELSE IF outcome = 401 THEN "Invalid API key"
    ELSE IF outcome = 404 THEN "API endpoint not found"
    ELSE IF outcome = 400 THEN "Invalid request"
    ELSE IF outcome = 429 THEN "Rate limit exceeded"
    ELSE IF outcome = 403 THEN "Access forbidden"
    ELSE IF outcome \in {500, 502, 503} THEN "Service temporarily unavailable"
    ELSE IF message = "Connection failed"
         THEN (IF provider = "ollama" THEN "Ollama not running" ELSE "Network error")
    ELSE "Configuration test failed"

\* ------------------------------------------------------------------------
\* AISummaryGenerator
\* ------------------------------------------------------------------------
max_workers == 3

Min(a, b) == IF a < b THEN a ELSE b
Max(a, b) == IF a > b THEN a ELSE b

\* A selection that takes every candidate.
SliceLen_All(n, max_summaries) == n

\* len(candidates[:max_summaries]) for a list of n items (Python slicing: a
\* negative stop counts from the end).
SliceLen(n, max_summaries) ==
    IF max_summaries >= 0 THEN Min(max_summaries, n) ELSE Max(n + max_summaries, 0)

\* str.title() of the provider names.
title(name) ==
    CASE name = "openai" -> "Openai"
      [] name = "anthropic" -> "Anthropic"
      [] name = "googleai" -> "Googleai"
      [] name = "groq" -> "Groq"
      [] name = "ollama" -> "Ollama"

\* f"{provider.provider_name.title()} ({provider.model})"
ProviderLabel(provider) == <<title(provider.provider_name), provider.model>>

ErrorLabel == <<"Error">>
FallbackLabel == <<"Fallback (No AI Configured)">>

\* A candidate dict as the recommend endpoint produces it: the AI fields are
\* None, None and False.  The name is the identity of the candidate.
NewCandidate(name, resume_text) ==
    [name |-> name, resume_text |-> resume_text,
     ai_summary |-> None, ai_provider |-> None, ai_generated |-> FALSE]

\* The candidate lists of a call: n candidates named 1..n, all with resume
\* text or all but the last.
CandidateLists ==
    { [j \in 1..n |-> NewCandidate(j, IF j = n /\ blank THEN "" ELSE "resume")] :
        n \in 0..MaxCandidates, blank \in BOOLEAN }

\* Outcomes of the request a provider's generate_summary issues.
CallOutcomes == {"ok", "status", "exception"}

\* provider.generate_summary: the string returned for an outcome of the
\* request; every adapter catches every exception (ai_providers.py 81-88).
generate_summary(outcome, candidate_name) ==
    CASE outcome = "ok" -> <<"summary", candidate_name>>
      [] outcome = "status" -> <<"Error generating summary", candidate_name>>
      [] outcome = "exception" -> <<"Unable to generate AI summary", candidate_name>>

NoResumeText == <<"No resume text available for analysis">>

\* The annotation of lines 123-125.
AnnotateResult(candidate, summary, provider) ==
    [candidate EXCEPT !.ai_summary = summary,
                      !.ai_provider = ProviderLabel(provider),
                      !.ai_generated = TRUE]

\* An except branch that sets the label and leaves the other two fields.
AnnotateError_LabelOnly(candidate) == [candidate EXCEPT !.ai_provider = ErrorLabel]

\* The annotation of lines 128-130 (the exception was a timeout of the wait).
AnnotateError(candidate) ==
    [candidate EXCEPT !.ai_summary = <<"Unable to generate AI summary", "timeout">>,
                      !.ai_provider = ErrorLabel,
                      !.ai_generated = FALSE]

\* _add_fallback_summaries, lines 166-172, for one candidate.
AnnotateFallback(candidate) ==
    [candidate EXCEPT !.ai_summary = <<"fallback", candidate.name>>,
                      !.ai_provider = FallbackLabel,
                      !.ai_generated = FALSE]

\* No stateless call is being made.
NoCalc == [fn |-> "", pc |-> "idle"]

IdleGen ==
    [pc |-> "idle", sid |-> "", max_summaries |-> 0, provider |-> None,
     top |-> 0, i |-> 0, enhanced |-> <<>>, timed_out |-> {}]

\* ------------------------------------------------------------------------
\* Request handlers.  A handler is idle, inside a call, or done (the call has
\* returned and its result is still held by the caller).  pre_configs and
\* pre_providers remember the store as the call found it.
\* ------------------------------------------------------------------------
genvars == <<g, candidates, futures, net_calls>>

IdleHandler ==
    [pc |-> "idle", op |-> "", sid |-> "", config |-> NoConfig,
     ret |-> FALSE, msg |-> "", tested |-> FALSE, outcome |-> 0,
     pre_configs |-> [s \in Sessions |-> None],
     pre_providers |-> [s \in Sessions |-> None]]

NoSnap == [sid |-> "", config |-> None, provider |-> None]

Enter(p, op, session_id, config) ==
    [IdleHandler EXCEPT !.op = op, !.sid = session_id, !.config = config,
                        !.pre_configs = session_configs,
                        !.pre_providers = active_providers]

Done(rec, ret, msg) == [rec EXCEPT !.pc = "done", !.ret = ret, !.msg = msg]

\* Calls are issued one after the other: the request layer (main.py) runs
\* every handler on one event loop and no handler awaits inside a call.
Quiet == g.pc = "idle" /\ \A q \in Handlers : h[q].pc = "idle"

\* store_config, lines 17-37: validation and the write of session_configs.
store_config_enter(p, session_id, config) ==
    /\ snap' = NoSnap
    /\ IF ~StoreConfigAccepts(config)
       THEN /\ h' = [h EXCEPT ![p] = Done(Enter(p, "store_config", session_id, config), FALSE, "")]
            /\ UNCHANGED <<session_configs, active_providers>>
       ELSE /\ session_configs' = [session_configs EXCEPT ![session_id] = Some(StoredConfig(config))]
            /\ h' = [h EXCEPT ![p] = [Enter(p, "store_config", session_id, config) EXCEPT !.pc = "sc_create"]]
            /\ UNCHANGED active_providers
    /\ UNCHANGED <<genvars, calc>>

\* store_config called when no other call is running.
store_config_begin(p, session_id, config) ==
    /\ Quiet
    /\ store_config_enter(p, session_id, config)

\* store_config, lines 40-52: create the adapter and write active_providers;
\* an exception of create_provider is caught and makes store_config return
\* False.  Inside configure_ai the connection test follows.
store_config_create(p) ==
    /\ h[p].pc = "sc_create"
    /\ LET adapter == StoredAdapter(h[p].config)
       IN IF adapter = None
          THEN /\ UNCHANGED active_providers
               /\ h' = [h EXCEPT ![p] = Done(h[p], FALSE,
                        IF h[p].op = "configure_ai" THEN "Failed to save configuration" ELSE "")]
          ELSE /\ active_providers' = [active_providers EXCEPT ![h[p].sid] = adapter]
               /\ h' = [h EXCEPT ![p] =
                        IF h[p].op = "configure_ai"
                        THEN [h[p] EXCEPT !.pc = "test"]
                        ELSE Done(h[p], TRUE, "")]
    /\ UNCHANGED <<session_configs, snap>>
    /\ UNCHANGED <<genvars, calc>>

\* clear_config, lines 72-73.
clear_config_enter(p, session_id) ==
    /\ snap' = NoSnap
    /\ session_configs' = DelKey(session_configs, session_id)
    /\ h' = [h EXCEPT ![p] = [Enter(p, "clear_config", session_id, NoConfig) EXCEPT !.pc = "clear_prov"]]
    /\ UNCHANGED active_providers
    /\ UNCHANGED <<genvars, calc>>

\* clear_config called when no other call is running.
clear_config_begin(p, session_id) ==
    /\ Quiet
    /\ clear_config_enter(p, session_id)

\* clear_config inside configure_ai (line 238), lines 72-73.
clear_config_cfg(p) ==
    /\ h[p].pc = "clear_cfg"
    /\ session_configs' = DelKey(session_configs, h[p].sid)
    /\ h' = [h EXCEPT ![p].pc = "clear_prov"]
    /\ UNCHANGED <<active_providers, snap>>
    /\ UNCHANGED <<genvars, calc>>

\* clear_config, lines 74-75, and the return of the caller.
clear_config_prov(p) ==
    /\ h[p].pc = "clear_prov"
    /\ active_providers' = DelKey(active_providers, h[p].sid)
    /\ h' = [h EXCEPT ![p] =
             IF h[p].op = "configure_ai"
             THEN Done(h[p], FALSE, h[p].msg)
             ELSE Done(h[p], TRUE, "")]
    /\ UNCHANGED <<session_configs, snap>>
    /\ UNCHANGED <<genvars, calc>>

\* configure_ai, lines 205-232 with store_config's lines 17-37.
configure_ai_enter(p, session_id, config) ==
    /\ snap' = NoSnap
    /\ LET rec == Enter(p, "configure_ai", session_id, config)
           cfg == WithDefaultModel(config)
       IN IF ConfigureRejection(config) # ""
          THEN /\ h' = [h EXCEPT ![p] = Done(rec, FALSE, ConfigureRejection(config))]
               /\ UNCHANGED <<session_configs, active_providers>>
          ELSE IF ~StoreConfigAccepts(cfg)
          THEN /\ h' = [h EXCEPT ![p] = Done(rec, FALSE, "Failed to save configuration")]
               /\ UNCHANGED <<session_configs, active_providers>>
          ELSE /\ session_configs' = [session_configs EXCEPT ![session_id] = Some(StoredConfig(cfg))]
               /\ h' = [h EXCEPT ![p] = [rec EXCEPT !.pc = "sc_create", !.config = cfg]]
               /\ UNCHANGED active_providers
    /\ UNCHANGED <<genvars, calc>>

\* configure_ai called when no other call is running.
configure_ai_begin(p, session_id, config) ==
    /\ Quiet
    /\ configure_ai_enter(p, session_id, config)

\* configure_ai, lines 234-238: test_connection (lines 62-68) and its result.
configure_ai_test(p) ==
    /\ h[p].pc = "test"
    /\ IF get_provider(h[p].sid) = None
       THEN h' = [h EXCEPT ![p] = [h[p] EXCEPT !.pc = "clear_cfg", !.tested = TRUE,
                    !.msg = FailureMessage(0, "No provider configured", h[p].config.provider)]]
       ELSE \E outcome \in TestOutcomes :
              h' = [h EXCEPT ![p] =
                    IF test_connection(outcome)[1]
                    THEN Done([h[p] EXCEPT !.tested = TRUE, !.outcome = outcome],
                              TRUE, "configured successfully")
                    ELSE [h[p] EXCEPT !.pc = "clear_cfg", !.tested = TRUE, !.outcome = outcome,
                            !.msg = FailureMessage(outcome, test_connection(outcome)[2],
                                                   h[p].config.provider)]]
    /\ UNCHANGED <<session_configs, active_providers, snap>>
    /\ UNCHANGED <<genvars, calc>>

\* The caller takes the result; the handler is free for the next call.
Return(p) ==
    /\ h[p].pc = "done"
    /\ h' = [h EXCEPT ![p] = IdleHandler]
    /\ snap' = NoSnap
    /\ UNCHANGED <<session_configs, active_providers>>
    /\ UNCHANGED <<genvars, calc>>

\* A reader of the store: get_config and get_provider of one session, looked
\* up at one point of the running call.
Observe(session_id) ==
    /\ snap = NoSnap
    /\ \E q \in Handlers : h[q].pc \notin {"idle", "done"}
    /\ snap' = [sid |-> session_id, config |-> get_config(session_id),
                provider |-> get_provider(session_id)]
    /\ UNCHANGED <<session_configs, active_providers, h>>
    /\ UNCHANGED <<genvars, calc>>

\* ------------------------------------------------------------------------
\* generate_summaries_batch
\* ------------------------------------------------------------------------
Running == {j \in DOMAIN futures : futures[j].state = "running"}
Queued == {j \in DOMAIN futures : futures[j].state = "queued"}

\* A pool that starts every submitted work item at once.
Submitted_AllRunning(cands, top) ==
    [j \in 1..top |->
        [candidate |-> j, state |-> "running", outcome |-> "", result |-> None]]

\* executor.submit of every selected candidate (lines 106-116): the pool
\* runs at most max_workers work items, the others wait in its queue.
Submitted(cands, top) ==
    [j \in 1..top |->
        [candidate |-> j,
         state |-> IF j <= max_workers THEN "running" ELSE "queued",
         outcome |-> "", result |-> None]]

\* The candidates whose work item, once started, calls the provider
\* (_generate_single_summary, lines 145-156).
Requests(cands, js) == {j \in js : cands[j].resume_text # ""}

\* Lines 98-100: the path a batch call for the session takes in this store.
BatchPath(session_id) ==
    IF get_provider(session_id) = None THEN "fallback" ELSE "provider"

\* Lines 98-116: look the provider up; without one, annotate the selected
\* candidates with the fallback and return; with one, submit the work items.
generate_summaries_batch_enter(session_id, cands, max_summaries) ==
    /\ snap' = NoSnap
    /\ LET provider == get_provider(session_id)
           top == SliceLen(Len(cands), max_summaries)
           call == [IdleGen EXCEPT !.sid = session_id, !.max_summaries = max_summaries,
                                   !.provider = provider, !.top = top]
       IN IF provider = None
          THEN /\ candidates' = [j \in DOMAIN cands |->
                                    IF j <= top THEN AnnotateFallback(cands[j]) ELSE cands[j]]
               /\ g' = [call EXCEPT !.pc = "done", !.enhanced = [j \in 1..top |-> j]]
               /\ futures' = <<>>
               /\ net_calls' = {}
          ELSE /\ candidates' = cands
               /\ g' = [call EXCEPT !.pc = "collect", !.i = 1]
               /\ futures' = Submitted(cands, top)
               /\ net_calls' = Requests(cands, {j \in 1..top : j <= max_workers})
    /\ UNCHANGED <<calc, session_configs, active_providers, h>>

\* generate_summaries_batch called when no other call is running.
generate_summaries_batch_begin(session_id, cands, max_summaries) ==
    /\ Quiet
    /\ generate_summaries_batch_enter(session_id, cands, max_summaries)

\* A worker finishes its work item: _generate_single_summary returns the
\* provider's string (lines 143-161).  The worker then takes the next work
\* item of the queue, if any.
worker_finish(j, outcome) ==
    /\ j \in Running
    /\ candidates[futures[j].candidate].resume_text = "" => outcome = "ok"
    /\ LET cand == candidates[futures[j].candidate]
           made == IF cand.resume_text = "" THEN "none" ELSE outcome
           summary == IF cand.resume_text = "" THEN NoResumeText
                      ELSE generate_summary(outcome, cand.name)
           next == IF Queued = {} THEN 0 ELSE CHOOSE q \in Queued : \A r \in Queued : q <= r
       IN /\ futures' = [q \in DOMAIN futures |->
                            IF q = j THEN [futures[q] EXCEPT !.state = "finished",
                                                             !.outcome = made,
                                                             !.result = summary]
                            ELSE IF q = next THEN [futures[q] EXCEPT !.state = "running"]
                            ELSE futures[q]]
          /\ net_calls' = net_calls \cup Requests(candidates, {next} \ {0})
    /\ UNCHANGED <<calc, session_configs, active_providers, h, snap, g, candidates>>

\* A loop that puts each collected candidate in front of the earlier ones.
Collected_Prepended(call, c) == [call EXCEPT !.i = @ + 1, !.enhanced = <<c>> \o @]

\* Line 132 and the next turn of the loop of line 120.
Collected(call, c) == [call EXCEPT !.i = @ + 1, !.enhanced = Append(@, c)]

\* A collect loop that appends inside the try block: a candidate whose wait
\* raised is left out of the returned list.
CollectedError_Dropped(call, c) ==
    [call EXCEPT !.i = @ + 1, !.timed_out = @ \cup {call.i}]

\* Lines 126-132: the except branch, then the next turn of the loop.
CollectedError(call, c) == [Collected(call, c) EXCEPT !.timed_out = @ \cup {call.i}]

\* Lines 120-125 and 132: future.result returned the work item's string.
collect_result ==
    /\ g.pc = "collect"
    /\ g.i <= g.top
    /\ futures[g.i].state = "finished"
    /\ LET c == futures[g.i].candidate
       IN /\ candidates' = [candidates EXCEPT
                              ![c] = AnnotateResult(@, futures[g.i].result, g.provider[1])]
          /\ g' = Collected(g, c)
    /\ UNCHANGED <<calc, session_configs, active_providers, h, snap, futures, net_calls>>

\* Lines 126-132: future.result(timeout=30) raised because the work item had
\* not finished when the wait ran out.
collect_timeout ==
    /\ g.pc = "collect"
    /\ g.i <= g.top
    /\ futures[g.i].state # "finished"
    /\ LET c == futures[g.i].candidate
       IN /\ candidates' = [candidates EXCEPT ![c] = AnnotateError(@)]
          /\ g' = CollectedError(g, c)
    /\ UNCHANGED <<calc, session_configs, active_providers, h, snap, futures, net_calls>>

\* A return that does not wait for the work items still running.
generate_summaries_batch_return_NoJoin ==
    /\ g.pc = "collect"
    /\ g.i > g.top
    /\ g' = [g EXCEPT !.pc = "done"]
    /\ UNCHANGED <<calc, session_configs, active_providers, h, snap, candidates, futures, net_calls>>

\* Leaving the `with` block (line 133): executor.shutdown(wait=True) returns
\* once every submitted work item has finished; then line 134 returns.
generate_summaries_batch_return ==
    /\ g.pc = "collect"
    /\ g.i > g.top
    /\ \A j \in DOMAIN futures : futures[j].state = "finished"
    /\ g' = [g EXCEPT !.pc = "done"]
    /\ UNCHANGED <<calc, session_configs, active_providers, h, snap, candidates, futures, net_calls>>

\* The caller takes the annotated candidates.
ReturnBatch ==
    /\ g.pc = "done"
    /\ g' = IdleGen
    /\ candidates' = <<>>
    /\ futures' = <<>>
    /\ net_calls' = {}
    /\ snap' = NoSnap
    /\ UNCHANGED <<calc, session_configs, active_providers, h>>

vars == <<session_configs, active_providers, h, snap, g, candidates, futures, net_calls, calc>>

Init ==
    /\ session_configs = [s \in Sessions |-> None]
    /\ active_providers = [s \in Sessions |-> None]
    /\ h = [p \in Handlers |-> IdleHandler]
    /\ snap = NoSnap
    /\ g = IdleGen
    /\ candidates = <<>>
    /\ futures = <<>>
    /\ net_calls = {}
    /\ calc = NoCalc

Next ==
    \/ \E p \in Handlers, s \in Sessions, c \in StoreInConfigs : store_config_begin(p, s, c)
    \/ \E p \in Handlers : store_config_create(p)
    \/ \E p \in Handlers, s \in Sessions : clear_config_begin(p, s)
    \/ \E p \in Handlers : clear_config_cfg(p)
    \/ \E p \in Handlers : clear_config_prov(p)
    \/ \E p \in Handlers, s \in Sessions, c \in InConfigs : configure_ai_begin(p, s, c)
    \/ \E p \in Handlers : configure_ai_test(p)
    \/ \E p \in Handlers : Return(p)
    \/ \E s \in Sessions : Observe(s)
    \/ \E s \in Sessions, cands \in CandidateLists, m \in -1..MaxSummaries :
          generate_summaries_batch_begin(s, cands, m)
    \/ \E j \in DOMAIN futures, outcome \in CallOutcomes : worker_finish(j, outcome)
    \/ collect_result
    \/ collect_timeout
    \/ generate_summaries_batch_return
    \/ ReturnBatch

Spec == Init /\ [][Next]_vars

\* ------------------------------------------------------------------------
\* Stateless service functions: one call at a time, arguments to result
\* ------------------------------------------------------------------------
MaxTextLen == 9         \* longest text length of a cost estimate
MaxEstimated == 3       \* longest candidate list of an estimate_cost call

ProviderClasses == {PROVIDERS[p] : p \in ProviderIds}

\* get_cost_estimate of each adapter class.  The cost is in millionths of a
\* dollar: (estimated_tokens / 1000) * 0.002 dollars is estimated_tokens * 2.
\* A cost priced for every class, the free ones too.
get_cost_estimate_AllPriced(cls, text_length) ==
    CASE cls = "OpenAIProvider" -> (text_length \div 4) * 2
      [] cls = "AnthropicProvider" -> (text_length \div 4) * 3
      [] cls = "GoogleAIProvider" -> (text_length \div 4) * 1
      [] cls = "GroqProvider" -> (text_length \div 4) * 1
      [] cls = "OllamaProvider" -> 0

\* estimated_tokens = text_length // 4; return (estimated_tokens / 1000) * price
get_cost_estimate(cls, text_length) ==
    CASE cls = "OpenAIProvider" -> (text_length \div 4) * 2
      [] cls = "AnthropicProvider" -> (text_length \div 4) * 3
      [] cls = "GoogleAIProvider" -> (text_length \div 4) * 1
      [] cls = "GroqProvider" -> 0
      [] cls = "OllamaProvider" -> 0

RECURSIVE SumSeq(_)
SumSeq(s) == IF s = <<>> THEN 0 ELSE Head(s) + SumSeq(Tail(s))

\* sum(len(c.get('resume_text', '')) for c in candidates[:max_summaries]),
\* the candidates given by the lengths of their resume texts.
total_resume_length(resume_lengths, max_summaries) ==
    SumSeq(SubSeq(resume_lengths, 1, SliceLen(Len(resume_lengths), max_summaries)))

\* total_text_length = job_length * max_summaries + total_resume_length
total_text_length(job_length, resume_lengths, max_summaries) ==
    job_length * max_summaries + total_resume_length(resume_lengths, max_summaries)

\* estimate_cost: 0.0 without a provider, else the provider's estimate of the
\* total text length.  fed is the length handed to get_cost_estimate.
estimate_cost(provider, job_length, resume_lengths, max_summaries) ==
    IF provider = None
    THEN [fed |-> None, cost |-> 0]
    ELSE LET total == total_text_length(job_length, resume_lengths, max_summaries)
         IN  [fed |-> Some(total), cost |-> get_cost_estimate(provider[1].cls, total)]

Call(fn, arg) == [fn |-> fn, pc |-> "call", arg |-> arg]
Result(call, out) == [fn |-> call.fn, pc |-> "done", arg |-> call.arg, out |-> out]
Called(fn) == calc.fn = fn /\ calc.pc = "done"

storevars == <<session_configs, active_providers, h, snap>>

\* The call returns out.
Apply(fn, out) ==
    /\ calc.pc = "call"
    /\ calc.fn = fn
    /\ calc' = Result(calc, out)
    /\ UNCHANGED <<storevars, genvars>>


\* Arguments of the calls.
ArgProviders == ProviderIds \cup {"", "bogus"}
ArgModels == UNION {MODELS[p] : p \in ProviderIds} \cup {"", "not-a-model"}
ArgKey == <<"s", "k", "1">>
JobLengths == {0, 5}
ResumeLengths == {0, 2, 7}
ResumeLengthLists == UNION {[1..n -> ResumeLengths] : n \in 0..MaxEstimated}
EstimateProviders ==
    {None} \cup {create_provider(p, ArgKey, default_models(p), "") : p \in {"openai", "groq"}}

CostCalls ==
    {Call("get_cost_estimate", [cls |-> c, text_length |-> n]) :
        c \in ProviderClasses, n \in 0..MaxTextLen}
ValidateCalls ==
    {Call("validate_provider_config", [provider_name |-> p, model |-> m]) :
        p \in ArgProviders, m \in ArgModels}
CreateCalls ==
    {Call("create_provider", [provider_name |-> p, model |-> m]) :
        p \in ArgProviders, m \in ArgModels}
EstimateCalls ==
    {Call("estimate_cost",
          [provider |-> a, job_length |-> j, resume_lengths |-> r, max_summaries |-> m]) :
        a \in EstimateProviders, j \in JobLengths, r \in ResumeLengthLists,
        m \in -1..MaxSummaries}

call_get_cost_estimate ==
    Apply("get_cost_estimate", get_cost_estimate(calc.arg.cls, calc.arg.text_length))

call_validate_provider_config ==
    Apply("validate_provider_config",
          validate_provider_config(calc.arg.provider_name, calc.arg.model))

call_create_provider ==
    Apply("create_provider",
          create_provider(calc.arg.provider_name, ArgKey, calc.arg.model, ""))

call_estimate_cost ==
    Apply("estimate_cost",
          estimate_cost(calc.arg.provider, calc.arg.job_length,
                        calc.arg.resume_lengths, calc.arg.max_summaries))

\* ------------------------------------------------------------------------
\* Provider adapters: generate_summary (ai_providers.py)
\* ------------------------------------------------------------------------
\* What the HTTP request of generate_summary can do: answer 200 with a body
\* of the expected shape, answer another status, answer 200 with a body that
\* lacks the expected keys, raise a connection error, or time out.
RequestOutcomes == {"ok", "status", "malformed", "exception", "timeout"}

Returns(value) == [raised |-> FALSE, value |-> value]
Raises(exc) == [raised |-> TRUE, exc |-> exc]

\* requests.post(..., timeout=30): a response, or an exception.
requests_post(outcome) ==
    CASE outcome = "ok" -> Returns([status_code |-> 200, body |-> "summary"])
      [] outcome = "malformed" -> Returns([status_code |-> 200, body |-> "malformed"])
      [] outcome = "status" -> Returns([status_code |-> 500, body |-> ""])
      [] outcome = "exception" -> Raises("ConnectionError")
      [] outcome = "timeout" -> Raises("Timeout")

\* data = response.json(); data['choices'][0]['message']['content'].strip()
\* (the keys differ per adapter): the text, or a KeyError/ValueError.
response_text(cls, response) ==
    IF response.body = "malformed" THEN Raises("KeyError") ELSE Returns(response.body)

\* The statements inside the try of generate_summary.
summary_try(cls, outcome) ==
    LET r == requests_post(outcome)
    IN  IF r.raised THEN r
        ELSE IF r.value.status_code = 200 THEN response_text(cls, r.value)
        ELSE Returns("Error generating summary")

\* An adapter whose try covers the request only, not the reading of the body.
adapter_generate_summary_RequestOnly(cls, outcome) ==
    LET r == requests_post(outcome)
    IN  IF r.raised THEN Returns("Unable to generate AI summary")
        ELSE IF r.value.status_code = 200 THEN response_text(cls, r.value)
        ELSE Returns("Error generating summary")

\* generate_summary of an adapter: try: ... except Exception as e:
\* return f"Unable to generate AI summary: {str(e)}"
adapter_generate_summary(cls, outcome) ==
    LET t == summary_try(cls, outcome)
    IN  IF t.raised THEN Returns("Unable to generate AI summary") ELSE t

SummaryCalls ==
    {Call("generate_summary", [cls |-> c, outcome |-> o]) :
        c \in ProviderClasses, o \in RequestOutcomes}

call_generate_summary ==
    Apply("generate_summary", adapter_generate_summary(calc.arg.cls, calc.arg.outcome))

\* ------------------------------------------------------------------------
\* EmbeddingEngine and the recommend endpoint (embedding_engine.py, main.py)
\* ------------------------------------------------------------------------
MaxFiles == 3           \* most files of an upload, most candidates of a ranking

\* Resume texts.  t1 and t2 open with the name line "Ann Lee", t3 has none.
Texts == {"t1", "t2", "t3"}
Filenames == {"a.txt", "b.txt"}

\* Cosine similarity of a text's embedding with the job description's, in
\* tenths.  t2 and t3 score the same.
similarity(text) ==
    CASE text = "t1" -> 4
      [] text = "t2" -> 9
      [] text = "t3" -> 9
      [] OTHER -> 0

\* list(zip(candidate_names, filenames, similarities))
zip3(a, b, c) == [j \in 1..Min(Len(a), Min(Len(b), Len(c))) |-> <<a[j], b[j], c[j]>>]

\* A sort that puts an item before the items of the same score.
RECURSIVE insert_desc_Before(_, _)
insert_desc_Before(s, x) ==
    IF s = <<>> THEN <<x>>
    ELSE IF Head(s)[3] > x[3] THEN <<Head(s)>> \o insert_desc_Before(Tail(s), x)
    ELSE <<x>> \o s

\* x placed into the descending list s behind every item of a score >= its own.
RECURSIVE insert_desc(_, _)
insert_desc(s, x) ==
    IF s = <<>> THEN <<x>>
    ELSE IF Head(s)[3] >= x[3] THEN <<Head(s)>> \o insert_desc(Tail(s), x)
    ELSE <<x>> \o s

\* candidates.sort(key=lambda x: x[2], reverse=True): list.sort is stable,
\* with reverse=True too.
RECURSIVE sort_desc(_)
sort_desc(s) ==
    IF s = <<>> THEN <<>>
    ELSE insert_desc(sort_desc(SubSeq(s, 1, Len(s) - 1)), s[Len(s)])

\* calculate_cosine_similarity: sklearn's cosine_similarity raises ValueError
\* for an array of no samples.
calculate_cosine_similarity(resume_texts) ==
    IF resume_texts = <<>>
    THEN Raises("ValueError")
    ELSE Returns([j \in 1..Len(resume_texts) |-> similarity(resume_texts[j])])

rank_candidates(resume_texts, candidate_names, filenames) ==
    LET similarities == calculate_cosine_similarity(resume_texts)
    IN  IF similarities.raised THEN similarities
        ELSE Returns(sort_desc(zip3(candidate_names, filenames, similarities.value)))

\* extract_name_from_text: the name line of the text if it has one, else the
\* filename without extension, title-cased.
extract_name_from_text(text, filename) ==
    IF text \in {"t1", "t2"} THEN "Ann Lee"
    ELSE CASE filename = "a.txt" -> "A"
           [] filename = "b.txt" -> "B"

\* TextExtractor.process_file: (candidate_name, extracted_text)
process_file(file) ==
    IF file.text = ""
    THEN <<file.filename, "">>
    ELSE <<extract_name_from_text(file.text, file.filename), file.text>>

\* A loop that keeps every file.
with_text_All(files) ==
    [j \in 1..Len(files) |->
        [name |-> process_file(files[j])[1], filename |-> files[j].filename,
         text |-> process_file(files[j])[2]]]

\* The loop of lines 187-204: the files with extractable text, in order.
RECURSIVE with_text(_)
with_text(files) ==
    IF files = <<>> THEN <<>>
    ELSE LET p == process_file(Head(files))
         IN  (IF p[2] # ""
              THEN <<[name |-> p[1], filename |-> Head(files).filename, text |-> p[2]]>>
              ELSE <<>>) \o with_text(Tail(files))

\* next(text for j, text in enumerate(resume_texts)
\*      if candidate_names[j] == name and filenames[j] == filename)
first_text(kept, name, filename) ==
    LET js == {j \in 1..Len(kept) : kept[j].name = name /\ kept[j].filename = filename}
    IN  kept[CHOOSE j \in js : \A k \in js : j <= k].text

CandidateResult(name, filename, similarity_score, resume_text) ==
    [name |-> name, filename |-> filename, similarity_score |-> similarity_score,
     match_percentage |-> similarity_score * 10,
     ai_summary |-> None, ai_provider |-> None, ai_generated |-> FALSE,
     resume_text |-> resume_text]

\* recommend_candidates for a valid request (a job description and at least
\* one file of an allowed type).  ranked is what the ranker was called with,
\* None if it was not called.
recommend_candidates(files) ==
    LET kept == with_text(files)
        resume_texts == [j \in 1..Len(kept) |-> kept[j].text]
        candidate_names == [j \in 1..Len(kept) |-> kept[j].name]
        filenames == [j \in 1..Len(kept) |-> kept[j].filename]
    IN  IF resume_texts = <<>>
        THEN [success |-> FALSE,
              message |-> "No text could be extracted from any of the uploaded files",
              candidates |-> <<>>, total_processed |-> 0, ranked |-> None]
        ELSE LET r == rank_candidates(resume_texts, candidate_names, filenames)
             IN  IF r.raised
                 THEN [success |-> FALSE,
                       message |-> "An error occurred while processing candidates",
                       candidates |-> <<>>, total_processed |-> 0,
                       ranked |-> Some(resume_texts)]
                 ELSE LET top == SubSeq(r.value, 1, Min(10, Len(r.value)))
                      IN  [success |-> TRUE,
                           message |-> "Successfully processed",
                           candidates |->
                               [k \in 1..Len(top) |->
                                   CandidateResult(top[k][1], top[k][2], top[k][3],
                                       first_text(kept, top[k][1], top[k][2]))],
                           total_processed |-> Len(files),
                           ranked |-> Some(resume_texts)]

Seqs(S, lo, hi) == UNION {[1..n -> S] : n \in lo..hi}

RankInputs ==
    Seqs({[name |-> n, filename |-> f, text |-> t] :
            n \in {"Ann Lee", "B"}, f \in Filenames, t \in Texts}, 0, MaxFiles)
RankCalls ==
    {Call("rank_candidates",
          [resume_texts |-> [j \in 1..Len(c) |-> c[j].text],
           candidate_names |-> [j \in 1..Len(c) |-> c[j].name],
           filenames |-> [j \in 1..Len(c) |-> c[j].filename]]) : c \in RankInputs}
Uploads ==
    Seqs({[filename |-> f, text |-> t] : f \in Filenames, t \in Texts \cup {""}}, 1, MaxFiles)
RecommendCalls == {Call("recommend_candidates", [files |-> u]) : u \in Uploads}

call_rank_candidates ==
    Apply("rank_candidates",
          rank_candidates(calc.arg.resume_texts, calc.arg.candidate_names,
                          calc.arg.filenames))

call_recommend_candidates ==
    Apply("recommend_candidates", recommend_candidates(calc.arg.files))

\* ------------------------------------------------------------------------
\* generate_summaries_batch in time (ai_manager.py 106-132).  Times are in
\* units of 10 seconds; every work item is submitted at time 0.
\* ------------------------------------------------------------------------
MaxTimed == 4           \* most work items of a timed batch
wait_timeout == 3       \* future.result(timeout=30)

\* requests.post(..., timeout=30), timeout=60 in OllamaProvider.
request_timeout(cls) == IF cls = "OllamaProvider" THEN 6 ELSE 3

\* How long a work item occupies its worker: the provider answers after
\* duration, or the request gives up at its timeout and generate_summary
\* returns its error string.
run_time(cls, duration) == Min(duration, request_timeout(cls))

\* The worker that is free first (the lowest such worker).
first_free(free) ==
    CHOOSE w \in DOMAIN free :
        /\ \A v \in DOMAIN free : free[w] <= free[v]
        /\ \A v \in DOMAIN free : free[v] = free[w] => w <= v

\* The times at which the work items finish: each is started, in submit
\* order, by the worker that is free first.
RECURSIVE finish_times(_, _)
finish_times(runs, free) ==
    IF runs = <<>> THEN <<>>
    ELSE LET w == first_free(free)
             f == free[w] + Head(runs)
         IN  <<f>> \o finish_times(Tail(runs), [free EXCEPT ![w] = f])

\* The collect loop (lines 120-132) from its j-th turn on, entered at time
\* now: the work items whose wait runs out.  future.result(timeout=30)
\* counts from the moment the loop reaches the future; a work item finishing
\* at the very moment the wait runs out goes either way (tie).
RECURSIVE waits(_, _, _, _)
waits(finish, j, now, tie) ==
    IF j > Len(finish) THEN {}
    ELSE IF finish[j] <= now THEN waits(finish, j + 1, now, tie)
    ELSE IF finish[j] > now + wait_timeout \/ (finish[j] = now + wait_timeout /\ tie)
         THEN {j} \cup waits(finish, j + 1, now + wait_timeout, tie)
    ELSE waits(finish, j + 1, finish[j], tie)

\* The batch call with a provider of class cls whose calls take durations:
\* the candidates annotated "Error" by the wait, and the calls whose own
\* request timed out.
batch_timeline(cls, durations, tie) ==
    LET runs == [j \in DOMAIN durations |-> run_time(cls, durations[j])]
        finish == finish_times(runs, [w \in 1..max_workers |-> 0])
    IN  [finish |-> finish,
         timed_out |-> waits(finish, 1, 0, tie),
         request_timed_out |-> {j \in DOMAIN durations : durations[j] > request_timeout(cls)}]

Durations == {1, 4, 7}
TimelineCalls ==
    {Call("batch_timeline", [cls |-> c, durations |-> d, tie |-> t]) :
        c \in {"OpenAIProvider", "OllamaProvider"}, d \in Seqs(Durations, 1, MaxTimed),
        t \in BOOLEAN}

call_batch_timeline ==
    Apply("batch_timeline",
          batch_timeline(calc.arg.cls, calc.arg.durations, calc.arg.tie))

PureCalls ==
    CostCalls \cup ValidateCalls \cup CreateCalls \cup EstimateCalls
        \cup SummaryCalls \cup RankCalls \cup RecommendCalls \cup TimelineCalls

InitPure ==
    /\ session_configs = [s \in Sessions |-> None]
    /\ active_providers = [s \in Sessions |-> None]
    /\ h = [p \in Handlers |-> IdleHandler]
    /\ snap = NoSnap
    /\ g = IdleGen
    /\ candidates = <<>>
    /\ futures = <<>>
    /\ net_calls = {}
    /\ calc \in PureCalls

NextPure ==
    \/ call_get_cost_estimate
    \/ call_validate_provider_config
    \/ call_create_provider
    \/ call_estimate_cost
    \/ call_generate_summary
    \/ call_rank_candidates
    \/ call_recommend_candidates
    \/ call_batch_timeline

SpecPure == InitPure /\ [][NextPure]_vars

\* ------------------------------------------------------------------------
\* Calls of several threads at once: a handler starts a call whenever it is
\* free itself, and the steps of the running calls interleave.
\* ------------------------------------------------------------------------
MaxConcCandidates == 1  \* longest candidate list of a batch call running beside others

ConcConfigs ==
    {[provider |-> "openai", model |-> "gpt-3.5-turbo", api_key |-> <<"s", "k", "1">>],
     [provider |-> "openai", model |-> "gemini-pro", api_key |-> <<"s", "k", "1">>]}
ConcCandidateLists ==
    {c \in CandidateLists :
        Len(c) = MaxConcCandidates /\ \A j \in 1..Len(c) : c[j].resume_text # ""}

\* The session a thread works for: one thread per session.
SessionOf(p) == IF p = "h1" THEN "s1" ELSE "s2"

Free(p) == h[p].pc = "idle"

store_config_conc(p, session_id, config) ==
    Free(p) /\ store_config_enter(p, session_id, config)

clear_config_conc(p, session_id) ==
    Free(p) /\ clear_config_enter(p, session_id)

configure_ai_conc(p, session_id, config) ==
    Free(p) /\ configure_ai_enter(p, session_id, config)

generate_summaries_batch_conc(session_id, cands, max_summaries) ==
    g.pc = "idle" /\ generate_summaries_batch_enter(session_id, cands, max_summaries)

NextConc ==
    \/ \E p \in Handlers, c \in ConcConfigs : store_config_conc(p, SessionOf(p), c)
    \/ \E p \in Handlers : store_config_create(p)
    \/ \E p \in Handlers : clear_config_conc(p, SessionOf(p))
    \/ \E p \in Handlers : clear_config_cfg(p)
    \/ \E p \in Handlers : clear_config_prov(p)
    \/ \E p \in Handlers, c \in ConcConfigs : configure_ai_conc(p, SessionOf(p), c)
    \/ \E p \in Handlers : configure_ai_test(p)
    \/ \E p \in Handlers : Return(p)
    \/ \E s \in Sessions, cands \in ConcCandidateLists :
          generate_summaries_batch_conc(s, cands, MaxConcCandidates)
    \/ \E j \in DOMAIN futures : worker_finish(j, "ok")
    \/ collect_result
    \/ collect_timeout
    \/ generate_summaries_batch_return
    \/ ReturnBatch

SpecConc == Init /\ [][NextConc]_vars

\* ------------------------------------------------------------------------
\* AIInsightEngine.generate_candidate_insights (lines 281-308) beside the
\* configure and clear calls of another thread for the same session
\* ------------------------------------------------------------------------
\* get_provider_info, lines 268-279: provider and model of the stored config.
get_provider_info(session_id) ==
    IF get_config(session_id) = None
    THEN None
    ELSE Some([provider |-> get_config(session_id)[1].provider,
               model |-> get_config(session_id)[1].model])

\* The statistics being built after the batch has returned.
InsightsFn == "generate_candidate_insights"

\* Line 302: stats['provider_info'] = self.get_provider_info(session_id)
insights_provider_info ==
    /\ g.pc = "done"
    /\ calc = NoCalc
    /\ calc' = [fn |-> InsightsFn, pc |-> "cost",
                provider_info |-> get_provider_info(g.sid), cost_provider |-> None]
    /\ UNCHANGED <<storevars, genvars>>

\* Lines 303-305: estimate_cost looks the provider up again (line 184) and
\* estimates with it, or returns 0.0 without one.
insights_estimate_cost ==
    /\ calc.fn = InsightsFn /\ calc.pc = "cost"
    /\ calc' = [calc EXCEPT !.pc = "done", !.cost_provider = get_provider(g.sid)]
    /\ UNCHANGED <<storevars, genvars>>

\* Line 308: return enhanced_candidates, stats
insights_return ==
    /\ calc.fn = InsightsFn /\ calc.pc = "done"
    /\ calc' = NoCalc
    /\ g' = IdleGen
    /\ candidates' = <<>>
    /\ futures' = <<>>
    /\ net_calls' = {}
    /\ UNCHANGED storevars

\* The thread that configures and clears, and the session all calls are for.
Configurer == "h1"

NextInsights ==
    \/ \E c \in ConcConfigs : configure_ai_conc(Configurer, SessionOf(Configurer), c)
    \/ clear_config_conc(Configurer, SessionOf(Configurer))
    \/ store_config_create(Configurer)
    \/ configure_ai_test(Configurer)
    \/ clear_config_cfg(Configurer)
    \/ clear_config_prov(Configurer)
    \/ Return(Configurer)
    \/ \E cands \in ConcCandidateLists :
          generate_summaries_batch_conc(SessionOf(Configurer), cands, MaxConcCandidates)
    \/ \E j \in DOMAIN futures : worker_finish(j, "ok")
    \/ collect_result
    \/ collect_timeout
    \/ generate_summaries_batch_return
    \/ insights_provider_info
    \/ insights_estimate_cost
    \/ insights_return

SpecInsights == Init /\ [][NextInsights]_vars

\* ------------------------------------------------------------------------
\* Properties
\* ------------------------------------------------------------------------
Returned(p, op) == h[p].pc = "done" /\ h[p].op = op

StoreUnchangedSince(p) ==
    /\ session_configs = h[p].pre_configs
    /\ active_providers = h[p].pre_providers

\* The adapter is one of the class registered for the config's provider and
\* carries the config's model.
AdapterOf(config, adapter) ==
    /\ config.provider \in ProviderIds
    /\ adapter.cls = PROVIDERS[config.provider]
    /\ adapter.model = config.model

\* C1: store_config is atomic for readers of the session: a reader that looks
\* up get_config and get_provider during a store_config that replaces an
\* existing configuration sees the previous config with its adapter or the
\* new config with its adapter, never the new config with the old adapter.
C1_StoreAtomicForReaders ==
    \A p \in Handlers :
        ( /\ h[p].op = "store_config"
          /\ h[p].pc # "idle"
          /\ h[p].pre_configs[h[p].sid] # None
          /\ snap.sid = h[p].sid )
        => \/ /\ snap.config = h[p].pre_configs[h[p].sid]
              /\ snap.provider = h[p].pre_providers[h[p].sid]
           \/ /\ snap.config = Some(StoredConfig(h[p].config))
              /\ snap.provider # None
              /\ AdapterOf(h[p].config, snap.provider[1])
              /\ snap.provider[1].api_key = h[p].config.api_key

\* C2: when configure_ai has stored a config and the connection test that
\* follows fails, config and adapter of the session are cleared before it
\* returns; it returns success only after a successful test, and a config it
\* stored is still held on return only if its test succeeded.
C2_ConfigureAndVerify ==
    \A p \in Handlers :
        Returned(p, "configure_ai") =>
            /\ (h[p].tested /\ ~h[p].ret)
                 => get_config(h[p].sid) = None /\ get_provider(h[p].sid) = None
            /\ h[p].ret => h[p].tested /\ h[p].outcome = 200
            /\ (h[p].tested /\ get_config(h[p].sid) # None)
                 => /\ h[p].outcome = 200
                    /\ h[p].ret
                    /\ get_config(h[p].sid) = Some(StoredConfig(h[p].config))
            /\ ~h[p].tested => ~h[p].ret /\ StoreUnchangedSince(p)

C2_Witness ==
    \E p \in Handlers :
        /\ Returned(p, "configure_ai")
        /\ h[p].tested /\ ~h[p].ret /\ h[p].outcome = 401
        /\ h[p].pre_configs[h[p].sid] # None
        /\ get_config(h[p].sid) = None /\ get_provider(h[p].sid) = None

\* C3 as stated: configure_ai with an empty API key returns failure with the
\* invalid-key message, and afterwards get_provider of the session is absent.
C3_EmptyKeyAsStated ==
    \A p \in Handlers :
        (Returned(p, "configure_ai") /\ h[p].config.api_key = <<>>)
        => /\ ~h[p].ret
           /\ h[p].msg = "Please enter a valid API key"
           /\ get_provider(h[p].sid) = None

\* C3 amended: configure_ai with an empty API key returns failure, with the
\* invalid-key message when a provider was given and the missing-provider
\* message otherwise, and leaves the store as it was: a session that was
\* unconfigured remains unconfigured, a configured one keeps its adapter.
C3_EmptyKeyRejected ==
    \A p \in Handlers :
        (Returned(p, "configure_ai") /\ h[p].config.api_key = <<>>)
        => /\ ~h[p].ret
           /\ h[p].msg = IF h[p].config.provider = ""
                         THEN "Please select an AI provider"
                         ELSE "Please enter a valid API key"
           /\ StoreUnchangedSince(p)
           /\ h[p].pre_providers[h[p].sid] = None => get_provider(h[p].sid) = None

C3_Witness ==
    \E p \in Handlers :
        /\ Returned(p, "configure_ai") /\ h[p].config.api_key = <<>>
        /\ h[p].config.provider = "openai"
        /\ h[p].msg = "Please enter a valid API key"
        /\ get_provider(h[p].sid) = None

\* provider, model or api_key missing or empty, or the pair not in the registry
StoreMustReject(config) ==
    \/ config.provider = "" \/ config.model = "" \/ config.api_key = <<>>
    \/ config.provider \notin ProviderIds
    \/ config.model \notin MODELS[config.provider]

\* C4: store_config returns False and leaves config and adapter of every
\* session unchanged when provider, model or api_key is missing or empty or
\* the pair fails registry validation; otherwise it returns True and the
\* session then has the new config and a new adapter for its provider and
\* model.
C4_StoreConfigResult ==
    \A p \in Handlers :
        Returned(p, "store_config") =>
            IF StoreMustReject(h[p].config)
            THEN ~h[p].ret /\ StoreUnchangedSince(p)
            ELSE /\ h[p].ret
                 /\ get_config(h[p].sid) = Some(StoredConfig(h[p].config))
                 /\ get_provider(h[p].sid) # None
                 /\ AdapterOf(h[p].config, get_provider(h[p].sid)[1])
                 /\ get_provider(h[p].sid)[1].api_key = h[p].config.api_key

C4_Witness ==
    \E p \in Handlers :
        /\ Returned(p, "store_config")
        /\ h[p].config.provider = "google" /\ h[p].config.model = "gpt-3.5-turbo"
        /\ h[p].config.api_key # <<>>
        /\ ~h[p].ret
        /\ get_config(h[p].sid) # None

\* No call is in progress.
Completed == g.pc \in {"idle", "done"} /\ \A p \in Handlers : h[p].pc \in {"idle", "done"}

\* C5: after any sequence of completed operations every session has a stored
\* config exactly when it has an adapter, and the adapter's provider and model
\* are those of the config.
C5_SessionPairing ==
    Completed =>
        \A s \in Sessions :
            /\ get_config(s) = None <=> get_provider(s) = None
            /\ Len(get_config(s)) <= 1 /\ Len(get_provider(s)) <= 1
            /\ get_config(s) # None => AdapterOf(get_config(s)[1], get_provider(s)[1])

C5_Witness ==
    /\ g.pc = "done" /\ g.provider # None
    /\ get_config("s1") # None /\ get_config("s2") # None
    /\ get_config("s1")[1].provider # get_config("s2")[1].provider

\* C6: clear_config returns normally, afterwards config and adapter of the
\* session are absent, and on a session that has neither (never configured,
\* or cleared before) it leaves the store exactly as it was.
C6_ClearIdempotent ==
    \A p \in Handlers :
        Returned(p, "clear_config") =>
            /\ h[p].ret
            /\ get_config(h[p].sid) = None /\ get_provider(h[p].sid) = None
            /\ (h[p].pre_configs[h[p].sid] = None /\ h[p].pre_providers[h[p].sid] = None)
                 => StoreUnchangedSince(p)
            /\ \A s \in Sessions \ {h[p].sid} :
                 /\ get_config(s) = h[p].pre_configs[s]
                 /\ get_provider(s) = h[p].pre_providers[s]

C6_Witness ==
    \E p \in Handlers :
        /\ Returned(p, "clear_config")
        /\ h[p].pre_configs[h[p].sid] # None
        /\ get_config(h[p].sid) = None /\ get_provider(h[p].sid) = None

Selected == 1..g.top

\* C7: a batch for a session with no configured provider issues no provider
\* call, and annotates every selected candidate with the templated fallback
\* summary, ai_generated = false and the fallback label.
C7_FallbackPath ==
    (g.pc # "idle" /\ active_providers[g.sid] = None) =>
        /\ net_calls = {} /\ futures = <<>>
        /\ g.pc = "done"
        /\ Len(g.enhanced) = g.top
        /\ \A j \in Selected :
             /\ g.enhanced[j] = j
             /\ candidates[j].ai_summary = <<"fallback", candidates[j].name>>
             /\ candidates[j].ai_generated = FALSE
             /\ candidates[j].ai_provider = <<"Fallback (No AI Configured)">>

C7_Witness ==
    /\ g.pc = "done" /\ active_providers[g.sid] = None
    /\ g.top = 3 /\ Len(candidates) = 4
    /\ \E s \in Sessions : active_providers[s] # None

\* The call of the j-th selected candidate failed: a non-success response, a
\* network exception, or a timeout of the wait for its result.
CallFailed(j) == futures[j].outcome \in {"status", "exception"} \/ j \in g.timed_out

\* C8: with a configured provider each selected candidate is annotated by the
\* outcome of its own call: success gives ai_generated = true and the
\* provider/model label; a failed call (non-success response, network
\* exception, timeout) gives an error summary, ai_provider = "Error" and
\* ai_generated = false.
C8_AnnotatedByOutcome ==
    (g.pc = "done" /\ g.provider # None) =>
        \A j \in Selected :
            IF CallFailed(j)
            THEN /\ candidates[j].ai_provider = <<"Error">>
                 /\ candidates[j].ai_generated = FALSE
                 /\ candidates[j].ai_summary # None
            ELSE /\ candidates[j].ai_provider = ProviderLabel(g.provider[1])
                 /\ candidates[j].ai_generated = TRUE

\* C9: a failure or timeout of one call never aborts the batch: the batch
\* returns every selected candidate, annotated; every call has been made and
\* has finished; the candidates marked Error are exactly those whose wait
\* timed out, and every other candidate carries the result of its own call.
C9_FailureNeverAborts ==
    (g.pc = "done" /\ g.provider # None) =>
        /\ Len(g.enhanced) = g.top
        /\ Len(futures) = g.top
        /\ \A j \in Selected :
             /\ g.enhanced[j] = j
             /\ futures[j].state = "finished" /\ futures[j].result # None
             /\ candidates[j].ai_summary # None /\ candidates[j].ai_provider # None
             /\ candidates[j].ai_provider = <<"Error">> <=> j \in g.timed_out
             /\ candidates[j].ai_provider = <<"Error">> => ~candidates[j].ai_generated
             /\ j \notin g.timed_out => candidates[j].ai_summary = futures[j].result
        /\ Cardinality({j \in Selected : candidates[j].ai_provider = <<"Error">>})
             = Cardinality(g.timed_out)

C9_Witness ==
    /\ g.pc = "done" /\ g.provider # None
    /\ g.top = 4
    /\ g.timed_out = {2}
    /\ futures[3].outcome = "exception"
    /\ \A j \in {1, 3, 4} : candidates[j].ai_generated

\* C10 as stated: the batch returns exactly the first max_summaries candidates
\* (all of them when the list is shorter), min(max_summaries, n) of them, and
\* sends no candidate outside that prefix to the provider.
C10_PrefixAsStated ==
    g.pc = "done" =>
        /\ Len(g.enhanced) = Min(g.max_summaries, Len(candidates))
        /\ \A j \in 1..Len(g.enhanced) : g.enhanced[j] = j
        /\ net_calls \subseteq 1..Min(g.max_summaries, Len(candidates))

\* C10 amended: for max_summaries >= 0 the batch returns exactly the first
\* min(max_summaries, n) candidates and sends no other candidate to the
\* provider; for max_summaries < 0 it returns the first max(n + max_summaries,
\* 0) candidates, that is all but the last -max_summaries.
C10_SelectsPrefix ==
    g.pc = "done" =>
        LET n == Len(candidates)
            k == IF g.max_summaries >= 0
                 THEN (IF g.max_summaries < n THEN g.max_summaries ELSE n)
                 ELSE (IF n + g.max_summaries > 0 THEN n + g.max_summaries ELSE 0)
        IN /\ Len(g.enhanced) = k
           /\ \A j \in 1..k : g.enhanced[j] = j
           /\ net_calls \subseteq 1..k
           /\ \A j \in DOMAIN futures : futures[j].candidate <= k
           /\ \A j \in (k + 1)..n : candidates[j].ai_provider = None

C10_Witness ==
    /\ g.pc = "done" /\ g.provider # None
    /\ g.max_summaries = 2 /\ Len(candidates) = 4
    /\ net_calls = {1, 2}

\* C11: the batch cost estimate feeds the provider's estimate with
\* job_length * (number of candidates selected) + the sum of the selected
\* candidates' resume lengths.
C11_FedLength ==
    (Called("estimate_cost") /\ calc.arg.provider # None) =>
        LET a == calc.arg
            k == SliceLen(Len(a.resume_lengths), a.max_summaries)
        IN  calc.out.fed = Some(a.job_length * k + SumSeq(SubSeq(a.resume_lengths, 1, k)))

\* C12 as stated: the estimate equals (text_length / 4 / 1000) * price for
\* every length, the division being exact.  In millionths of a dollar:
\* 4 * cost = text_length * price.
C12_CostAsStated ==
    Called("get_cost_estimate") =>
        LET cls == calc.arg.cls
            price == CASE cls = "OpenAIProvider" -> 2
                       [] cls = "AnthropicProvider" -> 3
                       [] cls = "GoogleAIProvider" -> 1
                       [] OTHER -> 0
        IN  4 * calc.out = calc.arg.text_length * price

\* C12: the estimate equals (floor(text_length / 4) / 1000) * price for the
\* provider's fixed price, and is 0 for Groq and Ollama whatever the length.
C12_CostFloor ==
    Called("get_cost_estimate") =>
        LET cls == calc.arg.cls
            len == calc.arg.text_length
            price == CASE cls = "OpenAIProvider" -> 2
                       [] cls = "AnthropicProvider" -> 3
                       [] cls = "GoogleAIProvider" -> 1
                       [] OTHER -> 0
        IN  /\ 4 * calc.out = (len - (len % 4)) * price
            /\ cls \in {"GroqProvider", "OllamaProvider"} => calc.out = 0

C12_Witness ==
    /\ Called("get_cost_estimate")
    /\ calc.arg.cls = "AnthropicProvider"
    /\ calc.arg.text_length = 7
    /\ calc.out = 3

\* C13: validate_provider_config is true exactly for a registered provider
\* with a model of that provider's set; (openai, gpt-3.5-turbo) is valid,
\* (openai, not-a-model) is not, and no pair with an unknown provider is.
C13_ValidateIff ==
    Called("validate_provider_config") =>
        LET p == calc.arg.provider_name
            m == calc.arg.model
        IN  /\ calc.out <=> (p \in ProviderIds /\ m \in MODELS[p])
            /\ (p = "openai" /\ m = "gpt-3.5-turbo") => calc.out
            /\ (p = "openai" /\ m = "not-a-model") => ~calc.out
            /\ p \notin {"openai", "anthropic", "google", "groq", "ollama"} => ~calc.out

C13_Witness ==
    /\ Called("validate_provider_config")
    /\ calc.arg.provider_name = "openai"
    /\ calc.arg.model = "not-a-model"
    /\ calc.out = FALSE

\* C14: create_provider returns no adapter for a pair that
\* validate_provider_config rejects, and an error for an unknown provider.
C14_FactoryValidates ==
    Called("create_provider") =>
        /\ ~validate_provider_config(calc.arg.provider_name, calc.arg.model)
              => calc.out = None
        /\ calc.arg.provider_name \notin ProviderIds => calc.out = None

\* C15: for every adapter and every outcome of the request (success,
\* non-success status, malformed body, network exception, timeout),
\* generate_summary returns a string and raises nothing.
C15_AlwaysString ==
    Called("generate_summary") =>
        /\ ~calc.out.raised
        /\ calc.out.value \in
               {"summary", "Error generating summary", "Unable to generate AI summary"}
        /\ calc.arg.outcome \in {"malformed", "exception", "timeout"}
               => calc.out.value = "Unable to generate AI summary"

C15_Witness ==
    /\ Called("generate_summary")
    /\ calc.arg.cls = "OllamaProvider"
    /\ calc.arg.outcome = "malformed"
    /\ calc.out = Returns("Unable to generate AI summary")

Bijections(n) == {f \in [1..n -> 1..n] : \A i, j \in 1..n : f[i] = f[j] => i = j}

\* C16: rank_candidates returns a permutation of the input candidates in
\* descending order of similarity, candidates of equal similarity in their
\* input order.
C16_StableDescending ==
    (Called("rank_candidates") /\ calc.arg.resume_texts # <<>>) =>
        LET a == calc.arg
            n == Len(a.resume_texts)
        IN  /\ ~calc.out.raised
            /\ Len(calc.out.value) = n
            /\ \E f \in Bijections(n) :
                  /\ \A k \in 1..n :
                        calc.out.value[k] =
                            <<a.candidate_names[f[k]], a.filenames[f[k]],
                              similarity(a.resume_texts[f[k]])>>
                  /\ \A k, l \in 1..n :
                        k < l =>
                            /\ calc.out.value[k][3] >= calc.out.value[l][3]
                            /\ calc.out.value[k][3] = calc.out.value[l][3] => f[k] < f[l]

\* Three candidates, the last two of the same score and above the first: the
\* result has them first, in their input order.
C16_Witness ==
    /\ Called("rank_candidates")
    /\ calc.arg.resume_texts = <<"t1", "t2", "t3">>
    /\ calc.arg.filenames = <<"a.txt", "a.txt", "b.txt">>
    /\ calc.arg.candidate_names = <<"Ann Lee", "Ann Lee", "B">>
    /\ calc.out = Returns(<< <<"Ann Lee", "a.txt", 9>>, <<"B", "b.txt", 9>>,
                             <<"Ann Lee", "a.txt", 4>> >>)

\* C17: rank_candidates with zero candidates returns an empty sequence and
\* raises nothing.
C17_EmptyRanking ==
    (Called("rank_candidates") /\ calc.arg.resume_texts = <<>>) =>
        /\ ~calc.out.raised
        /\ calc.out.value = <<>>

\* C18: the recommend pipeline drops every file without text before ranking
\* (the ranker gets exactly the non-empty texts, and no returned candidate has
\* an empty text), and with no text at all it returns a result with an empty
\* candidate list without calling the ranker.
C18_EmptyTextDropped ==
    Called("recommend_candidates") =>
        LET files == calc.arg.files
            texts == [j \in 1..Len(files) |-> files[j].text]
            nonempty == SelectSeq(texts, LAMBDA t : t # "")
        IN  /\ calc.out.ranked # None =>
                  /\ calc.out.ranked[1] = nonempty
                  /\ \A k \in 1..Len(calc.out.ranked[1]) : calc.out.ranked[1][k] # ""
            /\ Len(calc.out.candidates) <= Len(nonempty)
            /\ \A k \in 1..Len(calc.out.candidates) :
                  calc.out.candidates[k].resume_text # ""
            /\ nonempty = <<>> =>
                  /\ calc.out.ranked = None
                  /\ calc.out.candidates = <<>>
                  /\ calc.out.success = FALSE
                  /\ calc.out.total_processed = 0

\* Three files, the middle one without text: two candidates are ranked.
C18_Witness ==
    /\ Called("recommend_candidates")
    /\ Len(calc.arg.files) = 3
    /\ calc.arg.files[1].text = "t1"
    /\ calc.arg.files[2].text = ""
    /\ calc.arg.files[3].text = "t2"
    /\ calc.out.ranked = Some(<<"t1", "t2">>)
    /\ calc.out.success
    /\ Len(calc.out.candidates) = 2

\* C20: configure_ai given no provider, an unknown provider, or a model that
\* is not in the provider's model set returns failure with a rejection reason
\* of the validation, without running test_connection and without storing
\* anything.
C20_RejectedBeforeNetwork ==
    \A p \in Handlers :
        (/\ Returned(p, "configure_ai")
         /\ \/ h[p].config.provider = ""
            \/ h[p].config.provider \notin ProviderIds
            \/ h[p].config.model # "" /\ h[p].config.model \notin MODELS[h[p].config.provider])
        => /\ ~h[p].ret
           /\ h[p].msg \in {"Please select an AI provider", "Please enter a valid API key",
                            "Invalid model for provider"}
           /\ h[p].config.provider = "" => h[p].msg = "Please select an AI provider"
           /\ ~h[p].tested
           /\ StoreUnchangedSince(p)

\* A registered provider with a usable key and a model of another provider.
C20_Witness ==
    \E p \in Handlers :
        /\ Returned(p, "configure_ai")
        /\ h[p].config = [provider |-> "openai", model |-> "gemini-pro",
                          api_key |-> <<"s", "k", "1">>]
        /\ ~h[p].ret
        /\ h[p].msg = "Invalid model for provider"
        /\ ~h[p].tested

\* C19: under every interleaving of store_config, clear_config, configure_ai
\* (its clear after a failed test included) and generate_summaries_batch, a
\* step changes the stored config or adapter of a session only if it is a
\* step of a store, clear or configure call for that very session.
C19_SessionsIndependent ==
    [][\A s \in Sessions :
          (session_configs'[s] # session_configs[s] \/ active_providers'[s] # active_providers[s])
          => \E p \in Handlers :
                /\ h'[p] # h[p]
                /\ h'[p].sid = s
                /\ h'[p].op \in {"store_config", "clear_config", "configure_ai"}]_vars

\* configure_ai for s1 is clearing after a failed test and a batch for s1 is
\* running, while store_config for s2 has returned and s2 holds its adapter.
C19_Witness ==
    /\ h["h1"].op = "configure_ai" /\ h["h1"].sid = "s1" /\ h["h1"].pc = "clear_prov"
    /\ h["h2"].op = "store_config" /\ h["h2"].sid = "s2" /\ h["h2"].pc = "done" /\ h["h2"].ret
    /\ g.pc = "collect" /\ g.sid = "s1"
    /\ get_config("s1") = None
    /\ get_provider("s1") # None
    /\ get_config("s2") # None
    /\ get_provider("s2") # None

\* The provider calls in flight: the running work items of candidates with
\* resume text.
InFlight == {j \in Running : candidates[futures[j].candidate].resume_text # ""}

\* C21: within one batch call at most 3 provider calls are in flight at any
\* moment, whatever the batch size, and a work item beyond the first 3 is
\* started only when an earlier one has finished: at most 3 work items run,
\* the others wait in submit order, and only started ones have issued a call.
C21_AtMostThreeInFlight ==
    LET finished == {j \in DOMAIN futures : futures[j].state = "finished"}
    IN  /\ Cardinality(InFlight) <= 3
        /\ Cardinality(Running) <= 3
        /\ \A q \in Queued : \A j \in Running \cup finished : j < q
        /\ net_calls \subseteq {j \in Running \cup finished :
                                   candidates[futures[j].candidate].resume_text # ""}

\* Four selected candidates with resume text: three calls in flight, the
\* fourth work item waiting in the queue.
C21_Witness ==
    /\ g.pc = "collect"
    /\ Len(futures) = 4
    /\ Cardinality(InFlight) = 3
    /\ Queued = {4}
    /\ candidates[4].resume_text # ""

\* C22: in whatever order the calls complete, the result of each call is
\* attached to the candidate the call was issued for, and the returned list
\* has the candidates in the input order.
C22_ResultsByIdentity ==
    (g.pc \in {"collect", "done"} /\ g.provider # None) =>
        /\ g.enhanced = [k \in 1..(g.i - 1) |-> k]
        /\ g.pc = "done" => Len(g.enhanced) = g.top
        /\ \A j \in DOMAIN futures :
              /\ futures[j].candidate = j
              /\ candidates[j].name = j
              /\ futures[j].state = "finished" =>
                    \/ futures[j].result = NoResumeText /\ candidates[j].resume_text = ""
                    \/ futures[j].result[2] = candidates[j].name
              /\ (j < g.i /\ j \notin g.timed_out) =>
                    /\ candidates[j].ai_summary = futures[j].result
                    /\ candidates[j].ai_generated
              /\ j >= g.i => candidates[j].ai_summary = None

\* The first call was collected, the third completed before the second.
C22_Witness ==
    /\ g.pc = "collect" /\ g.i = 2 /\ g.top = 3
    /\ g.timed_out = {}
    /\ futures[2].state = "running"
    /\ futures[3].state = "finished"
    /\ candidates[1].ai_summary = <<"summary", 1>>
    /\ futures[3].result = <<"summary", 3>>

\* C23: the timeout is enforced per call: a call is treated as timed out (its
\* candidate marked Error by the wait, or its own request timing out) exactly
\* when the call itself takes longer than 30 seconds, 60 for Ollama, whatever
\* the other calls of the batch take and wherever it stands in the batch.
C23_TimeoutPerCall ==
    Called("batch_timeline") =>
        \A j \in DOMAIN calc.arg.durations :
            (j \in calc.out.timed_out \/ j \in calc.out.request_timed_out)
            <=> calc.arg.durations[j] > (IF calc.arg.cls = "OllamaProvider" THEN 6 ELSE 3)

\* The three AI fields of a candidate.
AIFields(c) == <<c.ai_summary, c.ai_provider, c.ai_generated>>
Unannotated == <<None, None, FALSE>>

\* C24: the AI fields of a candidate are written once per batch call and all
\* three together (a step that changes a candidate finds it unannotated and
\* leaves all three set, so an Error annotation is never replaced by the late
\* result of the call), and when the call has returned every selected
\* candidate carries the three fields of one outcome - fallback, the result of
\* its call, or Error - and no other candidate has an AI field changed.
C24_WrittenOnceTogether ==
    /\ [](g.pc = "done" =>
            \A j \in DOMAIN candidates :
                IF j \in Selected
                THEN AIFields(candidates[j]) =
                        IF g.provider = None
                        THEN <<<<"fallback", candidates[j].name>>, FallbackLabel, FALSE>>
                        ELSE IF j \in g.timed_out
                        THEN <<<<"Unable to generate AI summary", "timeout">>, ErrorLabel, FALSE>>
                        ELSE <<futures[j].result, ProviderLabel(g.provider[1]), TRUE>>
                ELSE AIFields(candidates[j]) = Unannotated)
    /\ [][\A j \in DOMAIN candidates \cap DOMAIN candidates' :
             candidates'[j] # candidates[j] =>
                 /\ AIFields(candidates[j]) = Unannotated
                 /\ candidates'[j].ai_summary # None
                 /\ candidates'[j].ai_provider # None
                 /\ candidates'[j].name = candidates[j].name
                 /\ candidates'[j].resume_text = candidates[j].resume_text]_vars

\* Two of three candidates selected: the wait for the first ran out and its
\* call finished later with a summary, the second was annotated by its result.
C24_Witness ==
    /\ g.pc = "done" /\ g.provider # None
    /\ g.top = 2 /\ Len(candidates) = 3
    /\ g.timed_out = {1}
    /\ futures[1].state = "finished" /\ futures[1].result = <<"summary", 1>>
    /\ candidates[1].ai_provider = ErrorLabel
    /\ candidates[2].ai_generated
    /\ AIFields(candidates[3]) = Unannotated

\* C25: configure_ai for a session that holds a config and adapter, with a
\* new config that passes validation and fails its connection test, leaves
\* the session with no config and no adapter - the earlier ones are not put
\* back - so that a batch call that follows takes the fallback path; the
\* other sessions keep what they had.
C25_FailedReconfigureClears ==
    \A p \in Handlers :
        (/\ Returned(p, "configure_ai")
         /\ h[p].pre_configs[h[p].sid] # None /\ h[p].pre_providers[h[p].sid] # None
         /\ h[p].tested /\ h[p].outcome # 200)
        => /\ ~h[p].ret
           /\ get_config(h[p].sid) = None
           /\ get_provider(h[p].sid) = None
           /\ BatchPath(h[p].sid) = "fallback"
           /\ \A s \in Sessions \ {h[p].sid} :
                 /\ get_config(s) = h[p].pre_configs[s]
                 /\ get_provider(s) = h[p].pre_providers[s]

\* s2 held an OpenAI config; configure_ai with a Google config was refused
\* by the provider (401) and s2 is left unconfigured.
C25_Witness ==
    \E p \in Handlers :
        /\ Returned(p, "configure_ai")
        /\ h[p].sid = "s2"
        /\ h[p].pre_configs["s2"] # None
        /\ h[p].pre_configs["s2"][1].provider = "openai"
        /\ h[p].pre_providers["s2"] # None
        /\ h[p].config.provider = "google"
        /\ h[p].tested /\ h[p].outcome = 401
        /\ get_config("s2") = None /\ get_provider("s2") = None

\* C27: when generate_summaries_batch has returned, no provider call of the
\* batch is still in flight: every submitted work item has finished, those
\* whose wait ran out and whose candidate was marked Error included.
C27_ReturnsAfterAllCalls ==
    g.pc = "done" =>
        /\ InFlight = {} /\ Running = {} /\ Queued = {}
        /\ \A j \in DOMAIN futures : futures[j].state = "finished"
        /\ \A j \in g.timed_out :
              /\ futures[j].state = "finished"
              /\ candidates[j].ai_provider = ErrorLabel
        /\ g.provider # None => Len(futures) = g.top

\* Four candidates; the waits for the second and the fourth ran out, and
\* their calls had finished when the call returned.
C27_Witness ==
    /\ g.pc = "done" /\ g.provider # None
    /\ g.top = 4
    /\ g.timed_out = {2, 4}
    /\ futures[2].state = "finished" /\ futures[2].outcome = "ok"
    /\ futures[4].state = "finished" /\ futures[4].outcome = "status"
    /\ candidates[4].ai_provider = ErrorLabel

\* C26: the statistics of generate_candidate_insights describe the provider
\* that annotated the returned candidates: provider_info is present and the
\* cost is estimated with a provider exactly when the batch ran with a
\* provider (not the fallback), and they are that provider and its model,
\* also when configure_ai or clear_config for the session runs meanwhile.
C26_StatsMatchAnnotations ==
    (calc.fn = InsightsFn /\ calc.pc = "done") =>
        /\ calc.provider_info # None <=> g.provider # None
        /\ calc.cost_provider # None <=> g.provider # None
        /\ g.provider # None =>
              /\ calc.cost_provider = g.provider
              /\ calc.provider_info[1].provider \in ProviderIds
              /\ PROVIDERS[calc.provider_info[1].provider] = g.provider[1].cls
              /\ calc.provider_info[1].model = g.provider[1].model

\* C28: every candidate the recommend pipeline returns carries the resume
\* text its own score was computed from: the returned entries are the input
\* candidates with text, each with its own name, filename, score and text,
\* also when the (name, filename) pairs of two uploads coincide.
C28_OwnResumeText ==
    (Called("recommend_candidates") /\ calc.out.success) =>
        LET files == calc.arg.files
            kept == SelectSeq(files, LAMBDA f : f.text # "")
            n == Len(kept)
            out == calc.out.candidates
        IN  /\ Len(out) = n
            /\ \A k \in 1..n : similarity(out[k].resume_text) = out[k].similarity_score
            /\ \E f \in Bijections(n) :
                  \A k \in 1..n :
                      /\ out[k].filename = kept[f[k]].filename
                      /\ out[k].name = process_file(kept[f[k]])[1]
                      /\ out[k].resume_text = kept[f[k]].text
                      /\ out[k].similarity_score = similarity(kept[f[k]].text)

====
